---- MODULE Spec2Model ----
(***************************************************************************)
(* Model of the catalogue API server (Express): loadJsonl, cleanTitle,     *)
(* getTitle, GET /api/courses and GET /api/scholarships.                   *)
(*                                                                         *)
(* JavaScript values are tagged records.  Strings are sequences of UTF-16  *)
(* code units, so that trim, toLowerCase, includes, split, parseInt and    *)
(* the relational operators are computed the way the engine computes them. *)
(***************************************************************************)
EXTENDS Integers, Sequences, FiniteSets, TLC

VARIABLES
  files,      \* private/data: file name -> File(text), text a sequence of tokens, or NoFile
  req,        \* the request: its route and req.query
  pc,         \* "idle" (not dispatched yet), "await" (reads in flight), "done"
  loading,    \* file name -> promise of the loadJsonl call made on it (Nothing: no call)
  stages,     \* the values the handler's locals took (Nothing until it ran)
  responses,  \* the responses sent on res, in order
  raw,        \* argument of the cleanTitle call under test
  cleaned     \* its return value (Nothing until it returned)

vars == <<files, req, pc, loading, stages, responses, raw, cleaned>>

(***************************************************************************)
(* Bounds of the model.                                                    *)
(***************************************************************************)
MaxWords == 6     \* words per generated title
MaxLines == 2     \* record lines per generated data file

(***************************************************************************)
(* JavaScript values.                                                      *)
(***************************************************************************)
Undef == [t |-> "undef"]
Null == [t |-> "null"]
NaN == [t |-> "nan"]
Nothing == [t |-> "nothing"]
Str(s) == [t |-> "str", s |-> s]
Num(n) == [t |-> "num", n |-> n]
List(l) == [t |-> "list", l |-> l]
Obj(f) == [t |-> "obj", f |-> f]

IsStr(v) == v.t = "str"
IsNum(v) == v.t = "num"
IsList(v) == v.t = "list"
IsObj(v) == v.t = "obj"
IsNullish(v) == v.t \in {"undef", "null"}

\* ToBoolean
Truthy(v) ==
  CASE v.t \in {"undef", "null", "nan"} -> FALSE
    [] v.t = "str" -> v.s # <<>>
    [] v.t = "num" -> v.n # 0
    [] OTHER -> TRUE

\* a || b  and  a ?? b
Or(a, b) == IF Truthy(a) THEN a ELSE b
Coalesce(a, b) == IF IsNullish(a) THEN b ELSE a

\* o.k for a value o that is not null or undefined (an own data property or
\* undefined; none of the names read by the server exists on a primitive)
Get(o, k) == IF IsObj(o) /\ k \in DOMAIN o.f THEN o.f[k] ELSE Undef

\* o.k throws a TypeError
GetThrows(o) == IsNullish(o)

(***************************************************************************)
(* Strings.                                                                *)
(***************************************************************************)
IsWs(c) == c \in {9, 10, 11, 12, 13, 32}
IsLineTerminator(c) == c \in {10, 13}
IsDigit(c) == c \in 48..57

ToLowerCase(s) == [i \in 1..Len(s) |-> IF s[i] \in 65..90 THEN s[i] + 32 ELSE s[i]]

RECURSIVE TrimStart(_)
TrimStart(s) == IF s # <<>> /\ IsWs(Head(s)) THEN TrimStart(Tail(s)) ELSE s

RECURSIVE TrimEnd(_)
TrimEnd(s) ==
  IF s # <<>> /\ IsWs(s[Len(s)]) THEN TrimEnd(SubSeq(s, 1, Len(s) - 1)) ELSE s

Trim(s) == TrimEnd(TrimStart(s))

\* h.includes(n)
Includes(h, n) ==
  \E i \in 0..(Len(h) - Len(n)) : SubSeq(h, i + 1, i + Len(n)) = n

\* a >= b on strings: code unit by code unit, a proper prefix is smaller
RECURSIVE StrGe(_, _)
StrGe(a, b) ==
  IF b = <<>> THEN TRUE
  ELSE IF a = <<>> THEN FALSE
  ELSE IF Head(a) # Head(b) THEN Head(a) > Head(b)
  ELSE StrGe(Tail(a), Tail(b))

RECURSIVE Digits(_)
Digits(n) == IF n < 10 THEN <<48 + n>> ELSE Digits(n \div 10) \o <<48 + (n % 10)>>

RECURSIVE JoinWith(_, _)
JoinWith(parts, sep) ==
  IF parts = <<>> THEN <<>>
  ELSE IF Len(parts) = 1 THEN parts[1]
  ELSE parts[1] \o sep \o JoinWith(Tail(parts), sep)

\* String(v)
RECURSIVE StringOf(_)
StringOf(v) ==
  CASE v.t = "str" -> v.s
    [] v.t = "num" -> IF v.n < 0 THEN <<45>> \o Digits(-v.n) ELSE Digits(v.n)
    [] v.t = "nan" -> <<78, 97, 78>>
    [] v.t = "undef" -> <<117, 110, 100, 101, 102, 105, 110, 101, 100>>
    [] v.t = "null" -> <<110, 117, 108, 108>>
    [] v.t = "list" ->
         JoinWith([i \in 1..Len(v.l) |->
                     IF IsNullish(v.l[i]) THEN <<>> ELSE StringOf(v.l[i])], <<44>>)
    [] OTHER -> <<91, 111, 98, 106, 101, 99, 116, 32, 79, 98, 106, 101, 99, 116, 93>>

\* s.split(/\s+/): the pieces between the maximal runs of white space
RECURSIVE SplitWsFrom(_, _, _, _)
SplitWsFrom(s, i, cur, out) ==
  IF i > Len(s) THEN Append(out, cur)
  ELSE IF IsWs(s[i])
    THEN IF i < Len(s) /\ IsWs(s[i + 1])
           THEN SplitWsFrom(s, i + 1, cur, out)
           ELSE SplitWsFrom(s, i + 1, <<>>, Append(out, cur))
    ELSE SplitWsFrom(s, i + 1, Append(cur, s[i]), out)

SplitWs(s) == SplitWsFrom(s, 1, <<>>, <<>>)

\* the sequences of at most n elements of S
RECURSIVE SeqsUpTo(_, _)
SeqsUpTo(S, n) ==
  IF n = 0 THEN {<<>>}
  ELSE LET shorter == SeqsUpTo(S, n - 1)
       IN  shorter \cup {Append(xs, x) : xs \in {y \in shorter : Len(y) = n - 1}, x \in S}

Min(a, b) == IF a < b THEN a ELSE b
Max(a, b) == IF a > b THEN a ELSE b

(***************************************************************************)
(* Numbers: Num(n) or NaN.                                                 *)
(***************************************************************************)
RECURSIVE DigitsValue(_, _)
DigitsValue(s, acc) ==
  IF s # <<>> /\ IsDigit(Head(s)) THEN DigitsValue(Tail(s), 10 * acc + (Head(s) - 48))
  ELSE acc

\* parseInt(s, 10): leading white space, an optional sign, then the longest
\* run of digits; NaN when there is no digit
ParseInt(s) ==
  LET t == TrimStart(s)
      signed == t # <<>> /\ Head(t) \in {43, 45}
      body == IF signed THEN Tail(t) ELSE t
  IN  IF body = <<>> \/ ~IsDigit(Head(body)) THEN NaN
      ELSE IF signed /\ Head(t) = 45 THEN Num(-DigitsValue(body, 0))
      ELSE Num(DigitsValue(body, 0))

\* Math.max(a, b) and Math.min(a, b)
MathMax(a, b) == IF a = NaN \/ b = NaN THEN NaN ELSE Num(Max(a.n, b.n))
MathMin(a, b) == IF a = NaN \/ b = NaN THEN NaN ELSE Num(Min(a.n, b.n))

Minus(a, b) == IF a = NaN \/ b = NaN THEN NaN ELSE Num(a.n - b.n)
Plus(a, b) == IF a = NaN \/ b = NaN THEN NaN ELSE Num(a.n + b.n)
Times(a, b) == IF a = NaN \/ b = NaN THEN NaN ELSE Num(a.n * b.n)

\* the index Array.prototype.slice makes of an argument: NaN is 0, a negative
\* number counts from the end, everything is clamped to 0..len
SliceIndex(v, len) ==
  IF v = NaN THEN 0
  ELSE IF v.n < 0 THEN Max(len + v.n, 0)
  ELSE Min(v.n, len)

\* arr.slice(start, end)
Slice(arr, start, end) ==
  SubSeq(arr, SliceIndex(start, Len(arr)) + 1, SliceIndex(end, Len(arr)))

\* JSON.stringify of a number: NaN is written as null
JsonNumber(v) == IF v = NaN THEN Null ELSE v

(***************************************************************************)
(* The data files and loadJsonl.  A text is a sequence of tokens: a line   *)
(* feed, a carriage return, a space, the complete JSON text of a value, or *)
(* a piece of text that is not JSON.                                       *)
(***************************************************************************)
NoFile == [exists |-> FALSE]
File(text) == [exists |-> TRUE, text |-> text]
LF == [k |-> "lf"]
CR == [k |-> "cr"]
SP == [k |-> "sp"]
BAD == [k |-> "bad"]
J(v) == [k |-> "json", v |-> v]

IsBlank(tok) == tok.k \in {"sp", "cr", "lf"}

\* text.split(/\r?\n/)
RECURSIVE SplitLinesFrom(_, _, _, _)
SplitLinesFrom(text, i, cur, out) ==
  IF i > Len(text) THEN Append(out, cur)
  ELSE IF text[i] = LF THEN SplitLinesFrom(text, i + 1, <<>>, Append(out, cur))
  ELSE IF text[i] = CR /\ i < Len(text) /\ text[i + 1] = LF
    THEN SplitLinesFrom(text, i + 2, <<>>, Append(out, cur))
  ELSE SplitLinesFrom(text, i + 1, Append(cur, text[i]), out)

SplitLines(text) == SplitLinesFrom(text, 1, <<>>, <<>>)

RECURSIVE TrimLine(_)
TrimLine(line) ==
  IF line # <<>> /\ IsBlank(Head(line)) THEN TrimLine(Tail(line))
  ELSE IF line # <<>> /\ IsBlank(line[Len(line)])
    THEN TrimLine(SubSeq(line, 1, Len(line) - 1))
  ELSE line

\* JSON.parse(line) returns: the line is one JSON text, white space around it
JsonParses(line) == Len(TrimLine(line)) = 1 /\ TrimLine(line)[1].k = "json"
JsonParse(line) == TrimLine(line)[1].v

\* lines.forEach(line => { if (!line.trim()) return;
\*                         try { out.push(JSON.parse(line)) } catch {} })
RECURSIVE LoadLines(_, _)
LoadLines(lines, out) ==
  IF lines = <<>> THEN out
  ELSE IF TrimLine(Head(lines)) = <<>> THEN LoadLines(Tail(lines), out)
  ELSE IF JsonParses(Head(lines))
    THEN LoadLines(Tail(lines), Append(out, JsonParse(Head(lines))))
  ELSE LoadLines(Tail(lines), out)

\* loadJsonl(filePath) once readFile returned text
loadJsonl(text) == LoadLines(SplitLines(text), <<>>)

(***************************************************************************)
(* Promises of the loadJsonl calls.                                        *)
(***************************************************************************)
Pending == [st |-> "pending"]
Rejected == [st |-> "rejected"]
Fulfilled(v) == [st |-> "fulfilled", v |-> v]

\* readFile completes: the promise of loadJsonl settles
Settle(file) ==
  IF files[file] = NoFile THEN Rejected ELSE Fulfilled(loadJsonl(files[file].text))

(***************************************************************************)
(* Responses.                                                              *)
(***************************************************************************)
ServerError == [status |-> 500, body |-> [error |-> "Server error"]]
UnsupportedCountry == [status |-> 400, body |-> [error |-> "Unsupported country"]]
Ok(body) == [status |-> 200, body |-> body]

\* String(req.query.name || dflt)
QueryString(name, dflt) == StringOf(Or(req.query[name], Str(dflt)))

\* Math.max(1, parseInt(String(req.query.page || '1'), 10))
PageOf(q) == MathMax(Num(1), ParseInt(StringOf(Or(q, Str(<<49>>)))))

\* Math.min(50, Math.max(1, parseInt(String(req.query.pageSize || '20'), 10)))
PageSizeOf(q) ==
  MathMin(Num(50), MathMax(Num(1), ParseInt(StringOf(Or(q, Str(<<50, 48>>))))))

\* const start = (page - 1) * pageSize
StartOf(page, pageSize) == Times(Minus(page, Num(1)), pageSize)

\* filtered.slice(start, start + pageSize)
PageOfData(filtered, page, pageSize) ==
  Slice(filtered, StartOf(page, pageSize), Plus(StartOf(page, pageSize), pageSize))

(***************************************************************************)
(* GET /api/scholarships                                                   *)
(***************************************************************************)
MainFile == "scholarships_pk.jsonl"
DetailsFile == "scholar_details.jsonl"

\* faulty variant: keys are compared after conversion to strings
LooseKeyEq(a, b) == StringOf(a) = StringOf(b)

\* the key equality of Map (SameValueZero): same type and same value for
\* primitives, identity for arrays and objects (two parsed values are never
\* the same object)
SameValueZero(a, b) == a = b /\ a.t \notin {"list", "obj"}

\* a Map is the sequence of its entries, in insertion order
MapHas(map, key) == \E i \in 1..Len(map) : SameValueZero(map[i].key, key)

\* stepsById.get(key)
MapGet(map, key) ==
  IF MapHas(map, key)
    THEN map[CHOOSE i \in 1..Len(map) : SameValueZero(map[i].key, key)].val
    ELSE Undef

\* faulty variant: an entry that exists is kept
MapSetKeepsFirst(map, key, val) ==
  IF MapHas(map, key) THEN map ELSE Append(map, [key |-> key, val |-> val])

\* stepsById.set(key, val)
MapSet(map, key, val) ==
  IF MapHas(map, key)
    THEN [i \in 1..Len(map) |->
            IF SameValueZero(map[i].key, key) THEN [key |-> key, val |-> val]
            ELSE map[i]]
    ELSE Append(map, [key |-> key, val |-> val])

\* d.id ?? d.scholarship_id
IdOf(d) == Coalesce(Get(d, "id"), Get(d, "scholarship_id"))

\* Array.isArray(d.steps) ? d.steps
\*   : (Array.isArray(d.application_steps) ? d.application_steps : [])
StepsOf(d) ==
  IF IsList(Get(d, "steps")) THEN Get(d, "steps")
  ELSE IF IsList(Get(d, "application_steps")) THEN Get(d, "application_steps")
  ELSE List(<<>>)

\* for (const d of details) { if (!d) continue; ...; stepsById.set(did, steps) }
RECURSIVE BuildStepsById(_, _)
BuildStepsById(details, map) ==
  IF details = <<>> THEN map
  ELSE LET d == Head(details)
       IN  IF ~Truthy(d) \/ IsNullish(IdOf(d)) THEN BuildStepsById(Tail(details), map)
           ELSE BuildStepsById(Tail(details), MapSet(map, IdOf(d), StepsOf(d)))

\* { ...s, steps: x }
WithSteps(s, x) ==
  LET own == IF IsObj(s) THEN s.f ELSE <<>>
  IN  Obj([k \in DOMAIN own \cup {"steps"} |-> IF k = "steps" THEN x ELSE own[k]])

\* s => { const sid = s.id ?? s.scholarship_id;
\*        return { ...s, steps: stepsById.get(sid) || [] } }
MergeOne(s, stepsById) == WithSteps(s, Or(MapGet(stepsById, IdOf(s)), List(<<>>)))

\* main.map(...) throws: reading s.id of null
MergeThrows(main) == \E i \in 1..Len(main) : GetThrows(main[i])

\* String(s.country || s.country_region || s.countryRegion || '')
\*   .trim().toLowerCase() === cc
CountryPasses(s, cc) ==
  ToLowerCase(Trim(StringOf(
    Or(Or(Or(Get(s, "country"), Get(s, "country_region")), Get(s, "countryRegion")),
       Str(<<>>))))) = cc

\* faulty variant: any scalar is compared by its string form
LevelPassesAnyScalar(s, lvl) ==
  LET levels == Or(Or(Get(s, "degree_levels"), Get(s, "degreeLevels")), Get(s, "levels"))
  IN  IF IsList(levels) THEN \E i \in 1..Len(levels.l) : StringOf(levels.l[i]) = lvl
      ELSE IF IsStr(levels) \/ IsNum(levels) THEN StringOf(levels) = lvl
      ELSE FALSE

\* const levels = s.degree_levels || s.degreeLevels || s.levels;
\* if (Array.isArray(levels)) return levels.map(String).includes(lvl);
\* if (typeof levels === 'string') return String(levels) === lvl;
\* return false
LevelPasses(s, lvl) ==
  LET levels == Or(Or(Get(s, "degree_levels"), Get(s, "degreeLevels")), Get(s, "levels"))
  IN  IF IsList(levels) THEN \E i \in 1..Len(levels.l) : StringOf(levels.l[i]) = lvl
      ELSE IF IsStr(levels) THEN StringOf(levels) = lvl
      ELSE FALSE

\* faulty variant: the floor itself is excluded
DeadlinePassesStrict(s, dl) ==
  \/ ~Truthy(Get(s, "deadline"))
  \/ (StrGe(StringOf(Get(s, "deadline")), dl) /\ StringOf(Get(s, "deadline")) # dl)

\* !s.deadline || String(s.deadline) >= dl
DeadlinePasses(s, dl) ==
  ~Truthy(Get(s, "deadline")) \/ StrGe(StringOf(Get(s, "deadline")), dl)

\* title.includes(qq) || provider.includes(qq)
TextPasses(s, qq) ==
  LET title == ToLowerCase(StringOf(Or(Or(Get(s, "name"), Get(s, "title")), Str(<<>>))))
      provider ==
        ToLowerCase(StringOf(Or(Or(Get(s, "provider"), Get(s, "organizer")), Str(<<>>))))
  IN  Includes(title, qq) \/ Includes(provider, qq)

\* the body of the handler after the await, when both loads are fulfilled:
\* the values of its locals and the response it sends
ScholarshipsRun(main, details) ==
  LET q == ToLowerCase(Trim(QueryString("q", <<>>)))
      country == Trim(QueryString("country", <<>>))
      level == Trim(QueryString("level", <<>>))
      deadline == Trim(QueryString("deadline", <<>>))
      page == PageOf(req.query["page"])
      pageSize == PageSizeOf(req.query["pageSize"])
      stepsById == BuildStepsById(details, <<>>)
      joined == [i \in 1..Len(main) |-> MergeOne(main[i], stepsById)]
      InCountry(s) == CountryPasses(s, ToLowerCase(Trim(country)))
      AtLevel(s) == LevelPasses(s, Trim(level))
      NotBefore(s) == DeadlinePasses(s, deadline)
      HasText(s) == TextPasses(s, ToLowerCase(q))
      byCountry == IF country # <<>> THEN SelectSeq(joined, InCountry) ELSE joined
      byLevel == IF level # <<>> THEN SelectSeq(byCountry, AtLevel) ELSE byCountry
      byDeadline == IF deadline # <<>> THEN SelectSeq(byLevel, NotBefore) ELSE byLevel
      byText == IF q # <<>> THEN SelectSeq(byDeadline, HasText) ELSE byDeadline
      data == PageOfData(byText, page, pageSize)
  IN  IF MergeThrows(main)
        THEN [locals |-> [threw |-> TRUE, main |-> main, details |-> details,
                          page |-> page, pageSize |-> pageSize],
              response |-> ServerError]
        ELSE [locals |-> [threw |-> FALSE, main |-> main, details |-> details,
                          q |-> q, country |-> country, level |-> level,
                          deadline |-> deadline, page |-> page, pageSize |-> pageSize,
                          stepsById |-> stepsById, joined |-> joined,
                          byCountry |-> byCountry, byLevel |-> byLevel,
                          byDeadline |-> byDeadline, merged |-> byText,
                          total |-> Len(byText), data |-> data],
              response |-> Ok([data |-> data, total |-> Num(Len(byText)),
                               page |-> JsonNumber(page),
                               pageSize |-> JsonNumber(pageSize)])]

\* Promise.all([...]) is fulfilled
AllFulfilled(ps) == \A f \in DOMAIN ps : ps[f].st = "fulfilled"

\* Promise.all([...]) is rejected
SomeRejected(ps) == \E f \in DOMAIN ps : ps[f].st = "rejected"

\* the value of a load, [] while it is not there
LoadedOr(ps, f) == IF ps[f].st = "fulfilled" THEN ps[f].v ELSE <<>>

\* app.get('/api/scholarships', ...) up to the await: both reads are started
ScholarshipsStart ==
  /\ pc = "idle"
  /\ req.route = "/api/scholarships"
  /\ loading' = [f \in {MainFile, DetailsFile} |-> Pending]
  /\ pc' = "await"
  /\ UNCHANGED <<files, req, stages, responses, raw, cleaned>>

\* one read completes and its loadJsonl promise settles; if that settles
\* Promise.all, the handler resumes in the same turn: the catch block on a
\* rejection, the join, the filters and the response on fulfilment
ScholarshipsReadDone(file) ==
  /\ req.route = "/api/scholarships"
  /\ pc \in {"await", "done"}
  /\ loading[file] = Pending
  /\ loading' = [loading EXCEPT ![file] = Settle(file)]
  /\ IF pc = "await" /\ SomeRejected(loading')
       THEN /\ responses' = Append(responses, ServerError)
            /\ pc' = "done"
            /\ UNCHANGED stages
     ELSE IF pc = "await" /\ AllFulfilled(loading')
       THEN LET run == ScholarshipsRun(LoadedOr(loading', MainFile),
                                       LoadedOr(loading', DetailsFile))
            IN  /\ stages' = run.locals
                /\ responses' = Append(responses, run.response)
                /\ pc' = "done"
     ELSE UNCHANGED <<pc, stages, responses>>
  /\ UNCHANGED <<files, req, raw, cleaned>>

ReadMainDone == ScholarshipsReadDone(MainFile)
ReadDetailsDone == ScholarshipsReadDone(DetailsFile)

Next == ScholarshipsStart \/ ReadMainDone \/ ReadDetailsDone

(***************************************************************************)
(* The requests and data files the handlers are run on.                    *)
(***************************************************************************)
NoQuery == [q |-> Undef, country |-> Undef, level |-> Undef, deadline |-> Undef,
            page |-> Undef, pageSize |-> Undef]

\* a data file holding the values vs, one per line: written with line feeds,
\* or with CR LF, a blank line and a line that is no JSON ahead of the
\* records and a newline at the end
CleanText(vs) == JoinWith([i \in 1..Len(vs) |-> <<J(vs[i])>>], <<LF>>)
DirtyText(vs) ==
  <<SP, LF, BAD, CR, LF>> \o JoinWith([i \in 1..Len(vs) |-> <<J(vs[i]), SP>>], <<CR, LF>>)
    \o <<LF>>

\* the same values, none alone on a line: two JSON texts separated by a
\* lone carriage return, or a JSON text followed by text that is no JSON
MangledText(vs) ==
  JoinWith([i \in 1..Len(vs) |-> <<J(vs[i]), CR, J(vs[i]), LF, SP, J(vs[i]), BAD>>], <<LF>>)

\* the files of at most n records drawn from Values, and the missing file
TextsOf(Values, n) ==
  {File(CleanText(vs)) : vs \in SeqsUpTo(Values, n)}
    \cup {File(DirtyText(vs)) : vs \in SeqsUpTo(Values, 1)}
    \cup {File(MangledText(vs)) : vs \in SeqsUpTo(Values, 1)}
    \cup {NoFile}

InitScholarships(Queries, Mains, Details) ==
  /\ req \in {[route |-> "/api/scholarships", query |-> qy] : qy \in Queries}
  /\ files \in {[f \in {MainFile, DetailsFile} |-> IF f = MainFile THEN m ELSE d] :
                  m \in Mains, d \in Details}
  /\ pc = "idle"
  /\ loading = Nothing
  /\ stages = Nothing
  /\ responses = <<>>
  /\ raw = Nothing
  /\ cleaned = Nothing

\* steps lists
StepsAB == List(<<Str(<<97>>), Str(<<98>>)>>)
StepsC == List(<<Str(<<99>>)>>)
StepsD == List(<<Str(<<100>>)>>)

\* main records: identifiers 1, "1" and 2 under either alias, a record with
\* steps of its own, one without identifier, and the line null
JoinMains ==
  {Obj([id |-> Num(1)]),
   Obj([id |-> Str(<<49>>)]),
   Obj([id |-> Null, scholarship_id |-> Num(2), steps |-> StepsC]),
   Obj([name |-> Str(<<97>>)]),
   Null}

\* detail records: the same identifiers, steps under either alias or neither,
\* a record without identifier, and the line null
JoinDetails ==
  {Obj([id |-> Num(1), steps |-> StepsAB]),
   Obj([id |-> Str(<<49>>), application_steps |-> StepsC]),
   Obj([scholarship_id |-> Num(1), steps |-> Str(<<97>>), application_steps |-> StepsD]),
   Obj([id |-> Num(2)]),
   Obj([steps |-> StepsAB]),
   Null}

InitJoin ==
  InitScholarships({NoQuery}, TextsOf(JoinMains, MaxLines), TextsOf(JoinDetails, MaxLines))

Spec == InitJoin /\ [][Next]_vars

(***************************************************************************)
(* Properties of the scholarship join.                                     *)
(***************************************************************************)
\* a 200 response has been sent
Answered200 == Len(responses) = 1 /\ responses[1].status = 200
Data == responses[1].body.data

\* the identifier of a parsed record as the specification reads it: id, else
\* scholarship_id, and none when neither holds a value
HasIdentifier(r) ==
  /\ IsObj(r)
  /\ \/ ("id" \in DOMAIN r.f /\ r.f.id # Null)
     \/ ("scholarship_id" \in DOMAIN r.f /\ r.f.scholarship_id # Null)
Identifier(r) ==
  IF "id" \in DOMAIN r.f /\ r.f.id # Null THEN r.f.id ELSE r.f.scholarship_id

\* the steps list of a detail record: steps, else application_steps, else []
StepsList(d) ==
  IF "steps" \in DOMAIN d.f /\ d.f.steps.t = "list" THEN d.f.steps
  ELSE IF "application_steps" \in DOMAIN d.f /\ d.f.application_steps.t = "list"
    THEN d.f.application_steps
  ELSE List(<<>>)

\* the detail records, by position in load order, whose identifier is that
\* of r under the relation Same
Matching(r, Same(_, _)) ==
  {j \in 1..Len(stages.details) :
     /\ HasIdentifier(r)
     /\ HasIdentifier(stages.details[j])
     /\ Same(Identifier(stages.details[j]), Identifier(r))}

Last(S) == CHOOSE j \in S : \A k \in S : k <= j

Identical(a, b) == a = b

\* 1 == "1": a number and a string that reads as that number
LooselyEqual(a, b) ==
  IF a.t \in {"num", "str"} /\ b.t \in {"num", "str"} THEN StringOf(a) = StringOf(b)
  ELSE a = b

\* C3: every record of a scholarships response carries the steps list of the
\* last detail record in load order with the same identifier, and the empty
\* list when there is none; detail records without identifier contribute
\* nothing.
C3_StepsOfLastMatchingDetail ==
  Answered200 =>
    \A i \in 1..Len(Data) :
      LET m == Matching(Data[i], Identical)
      IN  Data[i].f.steps =
            IF m = {} THEN List(<<>>) ELSE StepsList(stages.details[Last(m)])

\* a response with a record that two detail records match, with different
\* steps lists, the first of them not empty
C3_Witness ==
  /\ Answered200
  /\ \E i \in 1..Len(Data) :
       LET m == Matching(Data[i], Identical)
       IN  /\ Cardinality(m) = 2
           /\ \E j \in m : /\ j # Last(m)
                           /\ StepsList(stages.details[j]) # List(<<>>)
                           /\ StepsList(stages.details[j]) #
                                StepsList(stages.details[Last(m)])
           /\ Data[i].f.steps = StepsList(stages.details[Last(m)])

AloneOnLine(text, i) ==
  /\ text[i].k = "json"
  /\ \A j \in 1..Len(text) :
       (j # i /\ \A m \in (Min(i, j) + 1)..(Max(i, j) - 1) : text[m] # LF)
         => IsBlank(text[j])

\* the values of the lines that hold one JSON text, in file order
RECURSIVE ValuesFrom(_, _)
ValuesFrom(text, i) ==
  IF i > Len(text) THEN <<>>
  ELSE IF AloneOnLine(text, i) THEN <<text[i].v>> \o ValuesFrom(text, i + 1)
  ELSE ValuesFrom(text, i + 1)

\* every load that is fulfilled holds the values of the parsable lines
LoadsParsableLines ==
  loading # Nothing =>
    \A f \in DOMAIN loading :
      loading[f].st = "fulfilled" => loading[f].v = ValuesFrom(files[f].text, 1)

AllReadable == \A f \in DOMAIN files : files[f] # NoFile

\* C9: loadJsonl returns, in file order, the parsed values of the non-blank
\* lines that parse, and no line of a readable source makes the request
\* that loaded it end in an error response.
C9_NoLineFailsTheRequest ==
  /\ LoadsParsableLines
  /\ (AllReadable /\ pc = "done") => Answered200

\* C10: the join runs only once both loads are fulfilled; when a source is
\* unreadable nothing is joined and the request ends with the one response
\* 500 "Server error"; otherwise it ends with one 200 response.
C10_BothReadsThenOneResponse ==
  /\ stages # Nothing => AllFulfilled(loading)
  /\ Len(responses) <= 1
  /\ pc = "done" => Len(responses) = 1
  /\ ~AllReadable => /\ stages = Nothing
                     /\ pc = "done" => responses = <<ServerError>>
  /\ (AllReadable /\ pc = "done") => Answered200

(***************************************************************************)
(* Pagination.                                                             *)
(***************************************************************************)
PageMains ==
  {Obj([id |-> Num(1), name |-> Str(<<97>>)]),
   Obj([id |-> Num(2), name |-> Str(<<98>>)]),
   Obj([id |-> Num(3), provider |-> Str(<<65, 98>>)])}

\* page: absent, "", "0", "1", "2", "3", "-1", "abc"
PageParams ==
  {Undef, Str(<<>>), Str(<<48>>), Str(<<49>>), Str(<<50>>), Str(<<51>>),
   Str(<<45, 49>>), Str(<<97, 98, 99>>)}

\* pageSize: absent, "0", "1", "2", "1000", "x"
PageSizeParams ==
  {Undef, Str(<<48>>), Str(<<49>>), Str(<<50>>), Str(<<49, 48, 48, 48>>), Str(<<120>>)}

PageQueries ==
  {[NoQuery EXCEPT !.page = pg, !.pageSize = sz, !.q = q] :
     pg \in PageParams, sz \in PageSizeParams, q \in {Undef, Str(<<65>>)}}

InitPage ==
  InitScholarships(PageQueries, TextsOf(PageMains, MaxLines + 1), TextsOf({}, 0))

SpecPage == InitPage /\ [][Next]_vars

Body == responses[1].body

\* v is a number, and at least 1
Positive(v) == v.t = "num" /\ v.n >= 1

\* C1: total is the number of records passing the filters, data has at most
\* pageSize elements and is the slice of the filtered sequence that starts
\* at offset (page-1)*pageSize: shorter at the tail, empty past the end.
C1_DataIsThePageOfTheFiltered ==
  Answered200 =>
    /\ Body.total = Num(Len(stages.merged))
    /\ stages.merged = <<>> => Body.data = <<>>
    /\ stages.merged # <<>> =>
         /\ Positive(Body.page)
         /\ Positive(Body.pageSize)
         /\ Len(Body.data) <= Body.pageSize.n
         /\ LET offset == (Body.page.n - 1) * Body.pageSize.n
                len == Len(stages.merged)
            IN  /\ offset >= len => Body.data = <<>>
                /\ offset < len =>
                     /\ Len(Body.data) = Min(Body.pageSize.n, len - offset)
                     /\ \A i \in 1..Len(Body.data) :
                          Body.data[i] = stages.merged[offset + i]

\* C2: whatever page and pageSize are given, the request is not rejected for
\* them and the values used and returned satisfy page >= 1 and
\* 1 <= pageSize <= 50; page=0 is page 1, pageSize=1000 is 50, pageSize=0 is 1.
C2_PageAndSizeClamped ==
  /\ (AllReadable /\ pc = "done") => Answered200
  /\ Answered200 =>
       /\ Positive(stages.page)
       /\ Positive(stages.pageSize)
       /\ stages.pageSize.n <= 50
       /\ Body.page = stages.page
       /\ Body.pageSize = stages.pageSize
       /\ req.query.page = Str(<<48>>) => stages.page = Num(1)
       /\ req.query.pageSize = Str(<<49, 48, 48, 48>>) => stages.pageSize = Num(50)
       /\ req.query.pageSize = Str(<<48>>) => stages.pageSize = Num(1)

(***************************************************************************)
(* The deadline filter.                                                    *)
(***************************************************************************)
Date20241231 == <<50, 48, 50, 52, 45, 49, 50, 45, 51, 49>>
Date20250101 == <<50, 48, 50, 53, 45, 48, 49, 45, 48, 49>>
Date20250630 == <<50, 48, 50, 53, 45, 48, 54, 45, 51, 48>>

DeadlineMains ==
  {Obj([id |-> Num(1)]),
   Obj([id |-> Num(2), deadline |-> Null]),
   Obj([id |-> Num(3), deadline |-> Str(<<>>)]),
   Obj([id |-> Num(4), deadline |-> Str(Date20241231)]),
   Obj([id |-> Num(5), deadline |-> Str(Date20250101)]),
   Obj([id |-> Num(6), deadline |-> Str(Date20250630)]),
   Obj([id |-> Num(7), deadline |-> Num(20250101)]),
   Obj([id |-> Num(8), deadline |-> Num(0)])}

DeadlineQueries ==
  {[NoQuery EXCEPT !.deadline = d] :
     d \in {Undef, Str(Date20250101), Str(<<32>> \o Date20250630 \o <<32>>),
            Str(SubSeq(Date20250101, 1, 4))}}

InitDeadline ==
  InitScholarships(DeadlineQueries, TextsOf(DeadlineMains, MaxLines), TextsOf({}, 0))

SpecDeadline == InitDeadline /\ [][Next]_vars

\* a is lexicographically greater than or equal to b
LexGe(a, b) ==
  \/ /\ Len(b) <= Len(a)
     /\ SubSeq(a, 1, Len(b)) = b
  \/ \E i \in 1..Min(Len(a), Len(b)) :
       /\ SubSeq(a, 1, i - 1) = SubSeq(b, 1, i - 1)
       /\ a[i] > b[i]

\* the record holds no deadline: none, null, empty or zero
NoDeadlineValue(r) ==
  \/ "deadline" \notin DOMAIN r.f
  \/ r.f.deadline \in {Null, Str(<<>>), Num(0)}

\* the elements of arr that satisfy P, in order
Kept(arr, P(_)) == SelectSeq(arr, P)

\* C6: with a deadline filter, a record is kept iff it holds no deadline or
\* the string of its deadline is lexicographically >= the filter; with the
\* filter "2025-01-01", "2024-12-31" is excluded, "2025-01-01" included and
\* a record without deadline included; without filter nothing is removed.
C6_DeadlineFloor ==
  (stages # Nothing /\ ~stages.threw) =>
    LET Passes(r) == NoDeadlineValue(r) \/ LexGe(StringOf(r.f.deadline), stages.deadline)
        Is(d) == LET Has(r) == ~NoDeadlineValue(r) /\ r.f.deadline = Str(d)
                 IN  Kept(stages.byLevel, Has)
        In(d) == LET Has(r) == ~NoDeadlineValue(r) /\ r.f.deadline = Str(d)
                 IN  Kept(stages.byDeadline, Has)
    IN  /\ stages.deadline = <<>> => stages.byDeadline = stages.byLevel
        /\ stages.deadline # <<>> => stages.byDeadline = Kept(stages.byLevel, Passes)
        /\ stages.deadline = Date20250101 =>
             /\ In(Date20241231) = <<>>
             /\ In(Date20250101) = Is(Date20250101)
             /\ Kept(stages.byDeadline, NoDeadlineValue) =
                  Kept(stages.byLevel, NoDeadlineValue)

\* the filter "2025-01-01" ran over a record of 2024-12-31, which it removed,
\* and a record of 2025-01-01, which it kept
C6_Witness ==
  /\ Answered200
  /\ stages.deadline = Date20250101
  /\ \E i \in 1..Len(stages.byLevel) : stages.byLevel[i].f.id = Num(4)
  /\ Len(stages.byDeadline) = 1
  /\ stages.byDeadline[1].f.id = Num(5)

(***************************************************************************)
(* The level filter.                                                       *)
(***************************************************************************)
Master == <<77, 97, 115, 116, 101, 114>>
PhD == <<80, 104, 68>>

LevelMains ==
  {Obj([id |-> Num(1)]),
   Obj([id |-> Num(2), degree_levels |-> List(<<Str(Master), Str(PhD)>>)]),
   Obj([id |-> Num(3), degree_levels |-> Str(Master)]),
   Obj([id |-> Num(4), degreeLevels |-> Str(PhD), levels |-> Str(Master)]),
   Obj([id |-> Num(5), levels |-> List(<<Num(5)>>)]),
   Obj([id |-> Num(6), degree_levels |-> Num(5)]),
   Obj([id |-> Num(7), degree_levels |-> Str(<<>>), levels |-> Str(Master)]),
   Obj([id |-> Num(8), degree_levels |-> List(<<>>), levels |-> Str(Master)])}

\* level: absent, "Master", " PhD", "5", "master"
LevelQueries ==
  {[NoQuery EXCEPT !.level = l] :
     l \in {Undef, Str(Master), Str(<<32>> \o PhD), Str(<<53>>), Str(ToLowerCase(Master))}}

InitLevel ==
  InitScholarships(LevelQueries, TextsOf(LevelMains, MaxLines), TextsOf({}, 0))

SpecLevel == InitLevel /\ [][Next]_vars

LevelNames == <<"degree_levels", "degreeLevels", "levels">>

\* the level field of a record: the first of the three names that Chosen
\* accepts, and Undef when none does
LevelField(r, Chosen(_, _)) ==
  LET S == {i \in 1..3 : Chosen(r, LevelNames[i])}
  IN  IF S = {} THEN Undef ELSE r.f[LevelNames[CHOOSE i \in S : \A j \in S : i <= j]]

Present(r, k) == k \in DOMAIN r.f
NonEmpty(r, k) == k \in DOMAIN r.f /\ Truthy(r.f[k])

ListHolds(v, lvl) == v.t = "list" /\ \E i \in 1..Len(v.l) : StringOf(v.l[i]) = lvl

\* C7 as stated: the level field is the first present one; it passes as a
\* list holding the level after coercion to string, or as a scalar whose
\* string form is the level; anything else fails.
C7_ScalarByStringForm ==
  (stages # Nothing /\ ~stages.threw /\ stages.level # <<>>) =>
    LET Passes(r) ==
          LET v == LevelField(r, Present)
          IN  ListHolds(v, stages.level)
                \/ (v.t \in {"str", "num"} /\ StringOf(v) = stages.level)
    IN  stages.byLevel = Kept(stages.byCountry, Passes)

\* C7 as amended: the level field is the first non-empty one; it passes as a
\* list holding the level after coercion to string, or as a string equal to
\* the level; a number, an absent field and any other shape fail.
C7_StringOrList ==
  (stages # Nothing /\ ~stages.threw /\ stages.level # <<>>) =>
    LET Passes(r) ==
          LET v == LevelField(r, NonEmpty)
          IN  ListHolds(v, stages.level) \/ (v.t = "str" /\ v.s = stages.level)
    IN  stages.byLevel = Kept(stages.byCountry, Passes)

\* the filter "5" ran over a record whose level is the number 5, which it
\* removed, and one whose levels list holds the number 5, which it kept
C7_Witness ==
  /\ Answered200
  /\ stages.level = <<53>>
  /\ \E i \in 1..Len(stages.byCountry) : stages.byCountry[i].f.id = Num(6)
  /\ Len(stages.byLevel) = 1
  /\ stages.byLevel[1].f.id = Num(5)

(***************************************************************************)
(* cleanTitle                                                              *)
(***************************************************************************)
MaxWindow == 8

\* s.match(/^(.+?):\s*(.+)$/): the positions j of a colon at which the
\* pattern can match: a non-empty head without line terminators, and, after
\* the white space following the colon, a non-empty rest without line
\* terminators
ColonAt(s) ==
  {j \in 2..Len(s) :
     /\ s[j] = 58
     /\ \A i \in 1..(j - 1) : ~IsLineTerminator(s[i])
     /\ LET rest == TrimStart(SubSeq(s, j + 1, Len(s)))
        IN  rest # <<>> /\ \A i \in 1..Len(rest) : ~IsLineTerminator(rest[i])}

\* the lazy (.+?) stops at the first such colon
ColonMatch(s) ==
  LET j == CHOOSE x \in ColonAt(s) : \A y \in ColonAt(s) : x <= y
  IN  [A |-> Trim(SubSeq(s, 1, j - 1)), B |-> Trim(SubSeq(s, j + 1, Len(s)))]

ColonRuleFires(s) ==
  /\ ColonAt(s) # {}
  /\ Includes(ToLowerCase(ColonMatch(s).A), ToLowerCase(ColonMatch(s).B))

\* words.slice(-k).join(' ') and words.slice(0, -k).join(' ')
SuffixOf(words, k) == JoinWith(SubSeq(words, Len(words) - k + 1, Len(words)), <<32>>)
PrefixOf(words, k) == JoinWith(SubSeq(words, 1, Len(words) - k), <<32>>)

WindowMatches(words, k) ==
  Includes(ToLowerCase(PrefixOf(words, k)), ToLowerCase(SuffixOf(words, k)))

\* faulty variant: the loop stops before k = 2 is tried
WindowLoopSkipsTwo(s, words, k) ==
  LET RECURSIVE Loop(_)
      Loop(j) == IF j < 3 THEN s
                 ELSE IF WindowMatches(words, j) THEN Trim(PrefixOf(words, j))
                 ELSE Loop(j - 1)
  IN  Loop(k)

\* for(let k = ...; k >= 2; k--) { ... return prefix.trim() }  return s
WindowLoop(s, words, k) ==
  LET RECURSIVE Loop(_)
      Loop(j) == IF j < 2 THEN s
                 ELSE IF WindowMatches(words, j) THEN Trim(PrefixOf(words, j))
                 ELSE Loop(j - 1)
  IN  Loop(k)

\* cleanTitle(v), v the argument as passed
cleanTitle(v) ==
  LET s == Trim(StringOf(Or(v, Str(<<>>))))
      words == SplitWs(s)
  IN  IF s = <<>> THEN s
      ELSE IF ColonRuleFires(s) THEN ColonMatch(s).A
      ELSE WindowLoop(s, words, Min(MaxWindow, Len(words) \div 2))

(***************************************************************************)
(* getTitle                                                                *)
(***************************************************************************)
Germany == <<103, 101, 114, 109, 97, 110, 121>>
Netherlands == <<110, 101, 116, 104, 101, 114, 108, 97, 110, 100, 115>>
Sweden == <<115, 119, 101, 100, 101, 110>>
Finland == <<102, 105, 110, 108, 97, 110, 100>>

\* p.detail?.nimi?.name
NimiOf(p, name) ==
  IF IsNullish(Get(p, "detail")) \/ IsNullish(Get(Get(p, "detail"), "nimi")) THEN Undef
  ELSE Get(Get(Get(p, "detail"), "nimi"), name)

\* getTitle(country, p), p not null
getTitle(country, p) ==
  CASE country = Germany ->
         Str(cleanTitle(Or(Or(Get(p, "programme_title"), Get(p, "title")), Str(<<>>))))
    [] country = Netherlands ->
         Or(Or(Or(Get(p, "name"), Get(p, "title")), Get(p, "programTitle")), Str(<<>>))
    [] country = Sweden ->
         Str(cleanTitle(Or(Or(Or(Get(p, "title"), Get(p, "programme_title")),
                              Get(p, "header_line")), Str(<<>>))))
    [] country = Finland ->
         Str(cleanTitle(Or(Or(Or(Get(p, "title"), NimiOf(p, "en")), NimiOf(p, "fi")),
                           Str(<<>>))))
    [] OTHER -> Str(<<>>)

(***************************************************************************)
(* GET /api/courses                                                        *)
(***************************************************************************)
\* the own keys of COUNTRY_FILES
COUNTRY_FILES ==
  [c \in {Germany, Netherlands, Sweden, Finland} |->
     CASE c = Germany -> "daad_programmes.jsonl"
       [] c = Netherlands -> "nl_programs.jsonl"
       [] c = Sweden -> "sweden_rendered_all.jsonl"
       [] c = Finland -> "studyinfoFin_programmes.jsonl"]

\* the names COUNTRY_FILES inherits from Object.prototype that a lower-cased
\* string can spell: constructor and __proto__
InheritedKeys ==
  {<<99, 111, 110, 115, 116, 114, 117, 99, 116, 111, 114>>,
   <<95, 95, 112, 114, 111, 116, 111, 95, 95>>}

\* a file name as a value: a string, its text kept in one piece
FileName(name) == Str(<<name>>)

\* COUNTRY_FILES[country]: a file name, an inherited function or object, or
\* undefined
FileLookup(country) ==
  IF country \in DOMAIN COUNTRY_FILES THEN FileName(COUNTRY_FILES[country])
  ELSE IF country \in InheritedKeys THEN Obj(<<>>)
  ELSE Undef

\* (getTitle(country, p) || '').toLowerCase() throws: p is null, or the title
\* is a value without toLowerCase
TitleThrows(country, p) ==
  GetThrows(p) \/ (Truthy(getTitle(country, p)) /\ ~IsStr(getTitle(country, p)))

\* p => (getTitle(country, p) || '').toLowerCase().includes(q)
TitlePasses(country, p, q) ==
  Includes(ToLowerCase(Or(getTitle(country, p), Str(<<>>)).s), q)

\* the body of the handler after the await, when the load is fulfilled
CoursesRun(all) ==
  LET country == ToLowerCase(QueryString("country", Germany))
      q == ToLowerCase(Trim(QueryString("q", <<>>)))
      page == PageOf(req.query["page"])
      pageSize == PageSizeOf(req.query["pageSize"])
      HasText(x) == TitlePasses(country, x, q)
      filtered == IF q # <<>> THEN SelectSeq(all, HasText) ELSE all
      data == PageOfData(filtered, page, pageSize)
  IN  IF q # <<>> /\ \E i \in 1..Len(all) : TitleThrows(country, all[i])
        THEN [locals |-> [threw |-> TRUE, all |-> all, page |-> page,
                          pageSize |-> pageSize],
              response |-> ServerError]
        ELSE [locals |-> [threw |-> FALSE, all |-> all, q |-> q, country |-> country,
                          page |-> page, pageSize |-> pageSize, merged |-> filtered,
                          total |-> Len(filtered), data |-> data],
              response |-> Ok([data |-> data, total |-> Num(Len(filtered)),
                               page |-> JsonNumber(page),
                               pageSize |-> JsonNumber(pageSize),
                               country |-> Str(country)])]

\* app.get('/api/courses', ...) up to the await: an unknown country is
\* answered 400; path.join throws on a file name that is no string and the
\* catch block answers 500; otherwise the read is started
CoursesStart ==
  /\ pc = "idle"
  /\ req.route = "/api/courses"
  /\ LET fileName == FileLookup(ToLowerCase(QueryString("country", Germany)))
     IN  IF ~Truthy(fileName)
           THEN /\ responses' = Append(responses, UnsupportedCountry)
                /\ pc' = "done"
                /\ UNCHANGED loading
         ELSE IF ~IsStr(fileName)
           THEN /\ responses' = Append(responses, ServerError)
                /\ pc' = "done"
                /\ UNCHANGED loading
         ELSE /\ loading' = [f \in {fileName.s[1]} |-> Pending]
              /\ pc' = "await"
              /\ UNCHANGED responses
  /\ UNCHANGED <<files, req, stages, raw, cleaned>>

\* the read completes: the catch block on a failure, the filter, the page
\* and the response otherwise
CoursesReadDone ==
  /\ pc = "await"
  /\ req.route = "/api/courses"
  /\ \E file \in DOMAIN loading :
       /\ loading[file] = Pending
       /\ loading' = [loading EXCEPT ![file] = Settle(file)]
       /\ IF loading'[file] = Rejected
            THEN /\ responses' = Append(responses, ServerError)
                 /\ UNCHANGED stages
            ELSE LET run == CoursesRun(loading'[file].v)
                 IN  /\ stages' = run.locals
                     /\ responses' = Append(responses, run.response)
  /\ pc' = "done"
  /\ UNCHANGED <<files, req, raw, cleaned>>

NextCourses == CoursesStart \/ CoursesReadDone

CourseRecords ==
  {Obj([programme_title |-> Str(<<98, 97, 32, 98, 32, 98, 97, 32, 98>>),
        name |-> Str(<<97>>), title |-> Str(<<65, 58, 32, 97>>)]),
   Obj([title |-> Str(<<98>>), header_line |-> Str(<<97>>)]),
   Obj([detail |-> Obj([nimi |-> Obj([en |-> Str(<<98, 97>>), fi |-> Str(<<97>>)])])]),
   Obj([name |-> Num(5)]),
   Null}

\* country: absent, "", the four tags, "Germany", " germany", "france",
\* "constructor", "__proto__"
CountryParams ==
  {Undef, Str(<<>>), Str(Germany), Str(Netherlands), Str(Sweden), Str(Finland),
   Str(<<71>> \o Tail(Germany)), Str(<<32>> \o Germany),
   Str(<<102, 114, 97, 110, 99, 101>>)}
    \cup {Str(k) : k \in InheritedKeys}

CourseQueries ==
  {[NoQuery EXCEPT !.country = cy, !.q = q, !.pageSize = sz] :
     cy \in CountryParams, q \in {Undef, Str(<<65, 32>>), Str(<<98>>)},
     sz \in {Undef, Str(<<49>>)}}

InitCourses ==
  /\ req \in {[route |-> "/api/courses", query |-> qy] : qy \in CourseQueries}
  /\ files \in {[f \in {COUNTRY_FILES[c] : c \in DOMAIN COUNTRY_FILES} |-> x] :
                  x \in TextsOf(CourseRecords, MaxLines)}
  /\ pc = "idle"
  /\ loading = Nothing
  /\ stages = Nothing
  /\ responses = <<>>
  /\ raw = Nothing
  /\ cleaned = Nothing

SpecCourses == InitCourses /\ [][NextCourses]_vars

\* C5: a country that, lower-cased, is none of the four tags is answered
\* 400 "Unsupported country", never 500, and no data file is read for it.
C5_UnknownCountryIs400 ==
  ToLowerCase(StringOf(Or(req.query.country, Str(Germany)))) \notin
      {Germany, Netherlands, Sweden, Finland}
    => /\ loading = Nothing
       /\ pc = "done" => responses = <<UnsupportedCountry>>

(***************************************************************************)
(* The cleanTitle call under test.                                         *)
(***************************************************************************)
TitleWords == {<<97>>, <<65>>, <<98>>, <<98, 97>>, <<97, 58>>}

RECURSIVE Repeat(_, _)
Repeat(w, n) == IF n = 0 THEN <<>> ELSE <<w>> \o Repeat(w, n - 1)

\* "Master of Arts in Global Studies Global Studies"
TitleGlobalStudiesTwice ==
  <<77, 97, 115, 116, 101, 114, 32, 111, 102, 32, 65, 114, 116, 115, 32,
  105, 110, 32, 71, 108, 111, 98, 97, 108, 32, 83, 116, 117, 100, 105,
  101, 115, 32, 71, 108, 111, 98, 97, 108, 32, 83, 116, 117, 100, 105,
  101, 115>>

\* "Master of Arts in Global Studies"
TitleGlobalStudies ==
  <<77, 97, 115, 116, 101, 114, 32, 111, 102, 32, 65, 114, 116, 115, 32,
  105, 110, 32, 71, 108, 111, 98, 97, 108, 32, 83, 116, 117, 100, 105,
  101, 115>>

\* "Physics"
TitlePhysics ==
  <<80, 104, 121, 115, 105, 99, 115>>

\* "Data Science: Data Science"
TitleDataScienceTwice ==
  <<68, 97, 116, 97, 32, 83, 99, 105, 101, 110, 99, 101, 58, 32, 68, 97,
  116, 97, 32, 83, 99, 105, 101, 110, 99, 101>>

\* titles of up to MaxWords words, single or double spaced, with or without
\* surrounding white space, and a few long ones that reach the window cap
TitleInputs ==
  {JoinWith(ws, sep) : ws \in SeqsUpTo(TitleWords, MaxWords), sep \in {<<32>>}}
    \cup {<<32>> \o JoinWith(ws, <<32, 32>>) \o <<32>> : ws \in SeqsUpTo(TitleWords, 3)}
    \cup {JoinWith(Repeat(<<97>>, n), <<32>>) : n \in 15..19}
    \cup {JoinWith(Repeat(<<97>>, n) \o <<<<98>>>>, <<32>>) : n \in 15..19}
    \cup {TitleGlobalStudiesTwice, TitlePhysics, TitleDataScienceTwice}

InitTitle ==
  /\ raw \in {Str(s) : s \in TitleInputs} \cup {Undef, Null, Num(0)}
  /\ cleaned = Nothing
  /\ files = Nothing /\ req = Nothing /\ pc = "title" /\ loading = Nothing
  /\ stages = Nothing /\ responses = <<>>

CleanTitleCall ==
  /\ pc = "title"
  /\ cleaned = Nothing
  /\ cleaned' = Str(cleanTitle(raw))
  /\ UNCHANGED <<files, req, pc, loading, stages, responses, raw>>

NextTitle == CleanTitleCall

SpecTitle == InitTitle /\ [][NextTitle]_vars

\* the words of the trimmed argument of the call under test
RawWords == SplitWs(Trim(raw.s))

\* C8: when the colon rule does not fire, cleanTitle returns the words before
\* the last k for the largest k in 2..min(8, floor(n/2)) whose suffix window
\* is contained, ignoring case, in the prefix, and the trimmed input when
\* there is no such k; the two examples of the specification come out as
\* stated.
C8_LargestWindowWins ==
  (cleaned # Nothing /\ IsStr(raw) /\ ~ColonRuleFires(Trim(raw.s))) =>
    LET n == Len(RawWords)
        K == {k \in 2..Min(8, n \div 2) : WindowMatches(RawWords, k)}
    IN  /\ K = {} => cleaned.s = Trim(raw.s)
        /\ K # {} => \E k \in K : /\ \A j \in K : j <= k
                                  /\ cleaned.s = Trim(PrefixOf(RawWords, k))
        /\ raw.s = TitleGlobalStudiesTwice => cleaned.s = TitleGlobalStudies
        /\ raw.s = TitlePhysics => cleaned.s = TitlePhysics

\* a call returned where windows 3 and 2 both match and give different
\* prefixes, and the prefix of window 3 was returned
C8_Witness ==
  /\ cleaned # Nothing /\ IsStr(raw) /\ ~ColonRuleFires(Trim(raw.s))
  /\ Len(RawWords) >= 6
  /\ WindowMatches(RawWords, 3) /\ WindowMatches(RawWords, 2)
  /\ PrefixOf(RawWords, 3) # PrefixOf(RawWords, 2)
  /\ cleaned.s = Trim(PrefixOf(RawWords, 3))

====
